---- MODULE Spec2Model ----
(***************************************************************************)
(* Model of crawler.py: the crawl orchestration of the site indexer.       *)
(*                                                                         *)
(* run_crawler drains the frontier in waves of concurrently running crawl  *)
(* coroutines on one asyncio event loop.  A coroutine runs atomically      *)
(* between two suspension points; the suspension points of crawl are the   *)
(* robots.txt fetch (only when the host is not cached), the rate-limit     *)
(* sleep and the page fetch.  Each action below is one such atomic         *)
(* segment.  The web site, the robots.txt resource and the clock are the   *)
(* environment: their answers are drawn from small sets.                   *)
(***************************************************************************)
EXTENDS Integers, Sequences, FiniteSets, TLC

\* ------------------------------------------------------------ configuration
\* Crawl scope limits and politeness delay, scaled down from the values of
\* the source (1000 pages, depth 50, waves of 5, 2 seconds), and the length
\* of a snippet (200 characters in the source).
MAX_PAGES == 3
MAX_DEPTH == 2
BATCH_SIZE == 2
MIN_DELAY_SECONDS == 2
SNIPPET_LENGTH == 3

TARGET_ROOT == "https://site/"

IGNORED_EXTENSIONS ==
    {".pdf", ".jpg", ".jpeg", ".png", ".gif", ".zip", ".rar", ".mp4", ".mp3",
     ".txt", ".xml", ".atom", ".rss", ".css", ".js", ".ico"}

\* ------------------------------------------------------------------- URLs
\* The URL strings that occur in a run: the seed, three more pages of the
\* target host, and one URL for each way of being out of scope.
InScopePages == {"https://site/a", "https://site/b", "https://site/c"}
OutOfScopeURLs ==
    {"https://other/x", "https://sub.site/w", "https://site/p.PNG", "ftp://site/f"}
URLS == {TARGET_ROOT} \cup InScopePages \cup OutOfScopeURLs

\* urllib.parse.urlparse on the strings above.
urlparse(url) ==
    CASE url = "https://site/"      -> [scheme |-> "https", netloc |-> "site", path |-> "/"]
      [] url = "https://site/a"     -> [scheme |-> "https", netloc |-> "site", path |-> "/a"]
      [] url = "https://site/b"     -> [scheme |-> "https", netloc |-> "site", path |-> "/b"]
      [] url = "https://site/c"     -> [scheme |-> "https", netloc |-> "site", path |-> "/c"]
      [] url = "https://other/x"    -> [scheme |-> "https", netloc |-> "other", path |-> "/x"]
      [] url = "https://sub.site/w" -> [scheme |-> "https", netloc |-> "sub.site", path |-> "/w"]
      [] url = "https://site/p.PNG" -> [scheme |-> "https", netloc |-> "site", path |-> "/p.PNG"]
      [] url = "ftp://site/f"       -> [scheme |-> "ftp", netloc |-> "site", path |-> "/f"]
      [] OTHER                      -> [scheme |-> "", netloc |-> "", path |-> url]

TARGET_DOMAIN == urlparse(TARGET_ROOT).netloc

\* str.lower on the paths above.
lower(path) == IF path = "/p.PNG" THEN "/p.png" ELSE path

\* str.endswith(tuple) on the paths above: the dotted suffix of the path, if
\* it has one, is compared with every extension of the tuple.
endswith(path, suffixes) ==
    LET ext == CASE path = "/p.png" -> ".png"
                 [] path = "/p.PNG" -> ".PNG"
                 [] OTHER           -> ""
    IN  ext \in suffixes

\* The same-domain test of the scope filter, without it (a crawler that
\* follows links off the site).
is_valid_any_domain(url) ==
    LET parsed == urlparse(url)
    IN  /\ parsed.scheme \in {"http", "https"}
        /\ ~endswith(lower(parsed.path), IGNORED_EXTENSIONS)

is_valid(url) ==
    LET parsed == urlparse(url)
    IN  /\ parsed.scheme \in {"http", "https"}
        /\ ~endswith(lower(parsed.path), IGNORED_EXTENSIONS)
        /\ parsed.netloc = TARGET_DOMAIN

\* ------------------------------------------------------------------ hrefs
\* An href attribute as written in a document: an absolute URL, or a path
\* relative to the host of the page (rel).  NoHref: the tag is absent.
Abs(url) == [rel |-> FALSE, ref |-> url]
Rel(url) == [rel |-> TRUE, ref |-> urlparse(url).path]
NoHref == [rel |-> FALSE, ref |-> ""]

\* urllib.parse.urljoin(base, href): an absolute href replaces the base, a
\* rooted path keeps the scheme and host of the base.
urljoin(base, href) ==
    IF ~href.rel
    THEN href.ref
    ELSE LET b == urlparse(base)
             same(u) == urlparse(u) = [scheme |-> b.scheme, netloc |-> b.netloc,
                                       path |-> href.ref]
         IN  IF \E u \in URLS : same(u) THEN CHOOSE u \in URLS : same(u)
             ELSE href.ref

\* ------------------------------------------------------------ environment
\* What the robots.txt resource of a host answers: a transport error, a
\* status other than 200, or a body whose rules for the crawler's agent
\* token disallow the given path prefixes.
DisallowChoices == {{}, {"/a"}, {"/"}}
RobotsResponses ==
    {[status |-> "error", disallow |-> {}], [status |-> "404", disallow |-> {}]}
    \cup {[status |-> "200", disallow |-> d] : d \in DisallowChoices}

\* What a page fetch answers: a transport or status error, a body that is
\* not HTML, or an HTML document with a canonical link (or none) and its
\* hyperlinks.  links: the hrefs of the anchors outside the noisy elements;
\* noise_links: the hrefs of the anchors inside a script, style, nav, header,
\* footer or form element of the searchable block (none, or a navigation
\* menu that links to every page).  pages: the pages of the target host
\* other than the seed.
CanonicalHrefs == {NoHref, Abs("https://site/a"), Rel("https://site/a")}
LinkSets(pages) ==
    {in \cup {Abs(u) : u \in OutOfScopeURLs} \cup {Rel(TARGET_ROOT)} :
        in \in SUBSET {Abs(p) : p \in pages}}
NoiseLinkSets(pages) == {{}, {Abs(p) : p \in pages}}
PageResponses(pages) ==
    {[kind |-> "error", canonical |-> NoHref, links |-> {}, noise_links |-> {}],
     [kind |-> "other", canonical |-> NoHref, links |-> {}, noise_links |-> {}]}
    \cup {[kind |-> "html", canonical |-> c, links |-> l, noise_links |-> n] :
              c \in CanonicalHrefs, l \in LinkSets(pages), n \in NoiseLinkSets(pages)}
NoResponse == [kind |-> "none", canonical |-> NoHref, links |-> {}, noise_links |-> {}]

\* -------------------------------------------------------------- documents
\* Strings are sequences of characters here, so that slicing, trimming and
\* lengths are computed.  A text node holds one of these strings.
MaxNodes == 2
Texts ==
    {<<"x">>, <<"x", "x">>, <<" ", "x">>, <<"x", " ">>, <<" ">>,
     <<"x", "x", "x", "x">>}

\* An element of a block with its text: tag "nav" stands for the tags that
\* clean_and_summarize removes, tag "p" for any other.
Nodes == [text : Texts, tag : {"p", "nav"}]
NodeSeqs(n) == UNION {[1..k -> Nodes] : k \in 0..n}
NoBlock == [present |-> FALSE, nodes |-> <<>>]
Blocks(n) == {NoBlock} \cup {[present |-> TRUE, nodes |-> q] : q \in NodeSeqs(n)}

\* The title tag, and the meta tag named description: absent, present
\* without a content attribute, or present with one.
Titles == {[present |-> FALSE, text |-> <<>>], [present |-> TRUE, text |-> <<" ", "T", " ">>]}
Descriptions ==
    {[present |-> FALSE, has_content |-> FALSE, content |-> <<>>],
     [present |-> TRUE, has_content |-> FALSE, content |-> <<>>]}
    \cup {[present |-> TRUE, has_content |-> TRUE, content |-> c] :
              c \in {<<>>, <<" ">>, <<"d">>, <<" ", "d", " ">>}}

\* A parsed document: main is the first main, article or section element of
\* role main or article, body the body element.
Documents ==
    [title : Titles, description : Descriptions, main : Blocks(1),
     body : Blocks(MaxNodes)]

RECURSIVE lstrip(_)
lstrip(str) ==
    IF str # <<>> /\ Head(str) = " " THEN lstrip(Tail(str)) ELSE str

RECURSIVE rstrip(_)
rstrip(str) ==
    IF str # <<>> /\ str[Len(str)] = " "
    THEN rstrip(SubSeq(str, 1, Len(str) - 1)) ELSE str

\* str.strip()
strip(str) == rstrip(lstrip(str))

\* str[:n]
slice_to(str, n) == SubSeq(str, 1, IF Len(str) < n THEN Len(str) ELSE n)

\* for tag in searchable_block([...]): tag.decompose()
decompose(nodes) == SelectSeq(nodes, LAMBDA node : node.tag # "nav")

RECURSIVE get_text(_)
\* get_text(separator=' ', strip=True): the text nodes are stripped, the
\* empty ones dropped and the others joined by one space.
get_text(nodes) ==
    IF nodes = <<>> THEN <<>>
    ELSE LET first == strip(Head(nodes).text)
             rest == get_text(Tail(nodes))
         IN  IF first = <<>> THEN rest
             ELSE IF rest = <<>> THEN first
             ELSE first \o <<" ">> \o rest

UntitledPage == <<"Untitled Page">>
Ellipsis == <<".", ".", ".">>

clean_and_summarize(document) ==
    LET title == IF document.title.present
                 THEN strip(document.title.text) ELSE UntitledPage
        searchable_block == IF document.main.present
                            THEN document.main ELSE document.body
        content == IF ~searchable_block.present THEN <<>>
                   ELSE get_text(decompose(searchable_block.nodes))
        description_tag == document.description
        snippet == IF description_tag.present /\ description_tag.has_content
                   THEN strip(description_tag.content)
                   ELSE strip(slice_to(content, SNIPPET_LENGTH))
                            \o (IF Len(content) > SNIPPET_LENGTH
                                THEN Ellipsis ELSE <<>>)
    IN  [title |-> title, content |-> content, snippet |-> snippet]

NoSoup == [title |-> [present |-> FALSE, text |-> <<>>],
           description |-> [present |-> FALSE, has_content |-> FALSE, content |-> <<>>],
           main |-> NoBlock, body |-> NoBlock]
NoSummary == [title |-> <<>>, content |-> <<>>, snippet |-> <<"none">>]

\* ------------------------------------------------------------------ state
VARIABLES
    to_crawl_queue,          \* set of <<url, depth>>
    crawled_urls,            \* set of urls
    index_data,              \* sequence of page records
    robots_cache,            \* host -> parser, for the hosts fetched so far
    host_last_request_time,  \* host -> time since the last request to it
    current_queue,           \* run_crawler: the pending entries, in order
    tasks,                   \* the crawl coroutines of the running wave
    pc,                      \* run_crawler: where it stands
    output,                  \* what was written to OUTPUT_FILE
    site_pages,              \* environment: the pages the site links to
    fetch_count,             \* history: page fetches issued, per url
    last,                    \* history: the page whose response the last step
                             \* handled, with the kind and canonical link of it
    soup,                    \* clean_and_summarize: the document it is given
    summary                  \* clean_and_summarize: what it returned

vars == <<to_crawl_queue, crawled_urls, index_data, robots_cache,
          host_last_request_time, current_queue, tasks, pc, output,
          site_pages, fetch_count, last, soup, summary>>

\* host_last_request_time holds, for each host requested so far, the time
\* that has passed since time.time() was stored for it, counted in ticks and
\* saturating at MIN_DELAY_SECONDS: the code only compares it with that.
EmptyMap == [h \in {} |-> 0]
NoLast == [url |-> "", depth |-> 0, kind |-> "none", canonical |-> NoHref]

\* The module-level globals, and run_crawler not yet called.
Globals ==
    /\ to_crawl_queue = {<<TARGET_ROOT, 0>>}
    /\ crawled_urls = {}
    /\ index_data = <<>>
    /\ robots_cache = EmptyMap
    /\ host_last_request_time = EmptyMap
    /\ current_queue = <<>>
    /\ tasks = <<>>
    /\ pc = "start"
    /\ output = <<>>
    /\ site_pages \in SUBSET InScopePages
    /\ fetch_count = [u \in URLS |-> 0]
    /\ last = NoLast

Init ==
    /\ Globals
    /\ soup = NoSoup
    /\ summary = NoSummary

\* ----------------------------------------------------------- robots policy
\* A RobotFileParser: last_checked is set by parse(), disallow holds the path
\* prefixes that the parsed rules deny to the crawler's agent token.
NewParser == [last_checked |-> FALSE, disallow |-> {}]

\* str.startswith on the paths above.
startswith(path, prefix) == prefix = "/" \/ path = prefix

\* RobotFileParser.can_fetch: a parser that never parsed anything answers
\* False for every url; otherwise the first matching rule decides.
can_fetch(parser, url) ==
    /\ parser.last_checked
    /\ ~\E d \in parser.disallow : startswith(urlparse(url).path, d)

\* fetch_robots_txt after client.get returned or raised: the body is parsed
\* only on status 200.
parsed_robots(response) ==
    IF response.status = "200"
    THEN [last_checked |-> TRUE, disallow |-> response.disallow]
    ELSE NewParser

\* The cache test of fetch_robots_txt, and the test left out.
robots_cached_never(host) == FALSE

robots_cached(host) == host \in DOMAIN robots_cache

\* The robots test of crawl, and the test left out.
robots_denied_never(parser, url) == FALSE

robots_denied(parser, url) == ~can_fetch(parser, url)

\* ------------------------------------------------------------ rate limiting
\* elapsed = now - host_last_request_time.get(host, 0): with no request so
\* far the difference is the epoch time, far above the minimum delay.
elapsed(host) ==
    IF host \in DOMAIN host_last_request_time
    THEN host_last_request_time[host]
    ELSE MIN_DELAY_SECONDS

\* ------------------------------------------------------- response handling
\* The canonical test of crawl: the href as written differs from the url, and
\* the url it resolves to is in crawled_urls.  And the test left out.
canonical_skip_never(url, href, visited) == FALSE

canonical_skip(url, href, visited) ==
    /\ href # NoHref
    /\ href # Abs(url)
    /\ urljoin(url, href) \in visited

\* The test that guards to_crawl_queue.add, and the one without the depth.
may_enqueue_any_depth(absolute_url, new_depth, visited) ==
    absolute_url \notin visited

may_enqueue(absolute_url, new_depth, visited) ==
    absolute_url \notin visited /\ new_depth <= MAX_DEPTH

\* The entries the link loop adds for a document.
new_entries(url, depth, links, visited) ==
    {<<urljoin(url, h), depth + 1>> : h \in
        {l \in links : /\ is_valid(urljoin(url, l))
                       /\ may_enqueue(urljoin(url, l), depth + 1, visited)}}

\* How the handling of a response ends.  And how it would end without
\* response.raise_for_status() and the except clauses: the body of a failed
\* fetch handled like any other.
page_outcome_without_raise(url, resp, visited) ==
    CASE resp.kind = "other" -> "not_html"
      [] resp.kind = "html" /\ canonical_skip(url, resp.canonical, visited) -> "duplicate"
      [] OTHER -> "indexed"

page_outcome(url, resp, visited) ==
    CASE resp.kind = "error" -> "failed"
      [] resp.kind = "other" -> "not_html"
      [] resp.kind = "html" /\ canonical_skip(url, resp.canonical, visited) -> "duplicate"
      [] OTHER -> "indexed"

\* clean_and_summarize removes the noisy elements of the searchable block
\* from the soup itself (tag.decompose()), with the anchors inside them.
decompose_noise(resp) == [resp EXCEPT !.noise_links = {}]

\* soup.find_all('a', href=True): the hrefs of the anchors the soup holds.
find_all_a(parsed) == parsed.links \cup parsed.noise_links

\* The link loop runs after the record is appended, and only then, on the
\* soup that clean_and_summarize left.  And a variant that also runs it for
\* a page skipped as a duplicate.
discovered_also_on_duplicate(url, depth, resp, visited) ==
    IF page_outcome(url, resp, visited) \in {"indexed", "duplicate"}
    THEN new_entries(url, depth, find_all_a(decompose_noise(resp)), visited)
    ELSE {}

discovered(url, depth, resp, visited) ==
    IF page_outcome(url, resp, visited) = "indexed"
    THEN new_entries(url, depth, find_all_a(decompose_noise(resp)), visited)
    ELSE {}

\* The record appended for an indexed page.
page_record(url) == [id |-> url, url |-> url]

\* ------------------------------------------------------------------ crawl
NewTask(entry) ==
    [url |-> entry[1], depth |-> entry[2], pc |-> "start", delay |-> 0,
     outcome |-> "none"]

Host(i) == urlparse(tasks[i].url).netloc

\* The coroutine returns.
Return(i, outcome) ==
    tasks' = [tasks EXCEPT ![i].pc = "done", ![i].outcome = outcome]

\* host_last_request_time[host] = time.time(); crawled_urls.add(url); and the
\* page fetch is issued: the coroutine suspends in client.get.
IssueFetch(i) ==
    /\ host_last_request_time' =
           [h \in DOMAIN host_last_request_time \cup {Host(i)} |->
                IF h = Host(i) THEN 0 ELSE host_last_request_time[h]]
    /\ crawled_urls' = crawled_urls \cup {tasks[i].url}
    /\ fetch_count' = [fetch_count EXCEPT ![tasks[i].url] = @ + 1]
    /\ tasks' = [tasks EXCEPT ![i].pc = "fetch"]

\* From the robots test to the next suspension point, with the parser that
\* fetch_robots_txt returned.
Politeness(i, parser) ==
    IF robots_denied(parser, tasks[i].url)
    THEN /\ crawled_urls' = crawled_urls \cup {tasks[i].url}
         /\ Return(i, "denied")
         /\ UNCHANGED <<host_last_request_time, fetch_count>>
    ELSE IF elapsed(Host(i)) < MIN_DELAY_SECONDS
    THEN /\ tasks' = [tasks EXCEPT ![i].pc = "sleep",
                                   ![i].delay = MIN_DELAY_SECONDS - elapsed(Host(i))]
         /\ UNCHANGED <<crawled_urls, host_last_request_time, fetch_count>>
    ELSE IssueFetch(i)

\* The event loop starts the coroutines of a wave in the order of the batch.
\* crawl runs from its first line to its first suspension point.
Start(i) ==
    /\ pc = "gather"
    /\ i \in 1..Len(tasks)
    /\ tasks[i].pc = "start"
    /\ \A j \in 1..(i - 1) : tasks[j].pc # "start"
    /\ IF Cardinality(crawled_urls) >= MAX_PAGES
       THEN /\ Return(i, "limit")
            /\ UNCHANGED <<crawled_urls, robots_cache, host_last_request_time, fetch_count>>
       ELSE IF tasks[i].url \in crawled_urls
       THEN /\ Return(i, "visited")
            /\ UNCHANGED <<crawled_urls, robots_cache, host_last_request_time, fetch_count>>
       ELSE IF tasks[i].depth > MAX_DEPTH
       THEN /\ Return(i, "too_deep")
            /\ UNCHANGED <<crawled_urls, robots_cache, host_last_request_time, fetch_count>>
       ELSE IF robots_cached(Host(i))
       THEN /\ Politeness(i, robots_cache[Host(i)])
            /\ UNCHANGED robots_cache
       ELSE /\ tasks' = [tasks EXCEPT ![i].pc = "robots"]
            /\ UNCHANGED <<crawled_urls, robots_cache, host_last_request_time, fetch_count>>
    /\ last' = NoLast
    /\ UNCHANGED <<to_crawl_queue, index_data, current_queue, pc, output, site_pages>>
    /\ UNCHANGED <<soup, summary>>

\* client.get of robots.txt returns or raises: the parser is cached, and
\* crawl goes on to the robots test.
RobotsReturn(i, response) ==
    /\ pc = "gather"
    /\ \A j \in 1..Len(tasks) : tasks[j].pc # "start"
    /\ i \in 1..Len(tasks)
    /\ tasks[i].pc = "robots"
    /\ robots_cache' =
           [h \in DOMAIN robots_cache \cup {Host(i)} |->
                IF h = Host(i) THEN parsed_robots(response) ELSE robots_cache[h]]
    /\ Politeness(i, parsed_robots(response))
    /\ last' = NoLast
    /\ UNCHANGED <<to_crawl_queue, index_data, current_queue, pc, output, site_pages>>
    /\ UNCHANGED <<soup, summary>>

\* asyncio.sleep(delay) is over.
Wake(i) ==
    /\ pc = "gather"
    /\ \A j \in 1..Len(tasks) : tasks[j].pc # "start"
    /\ i \in 1..Len(tasks)
    /\ tasks[i].pc = "sleep"
    /\ tasks[i].delay = 0
    /\ IssueFetch(i)
    /\ last' = NoLast
    /\ UNCHANGED <<to_crawl_queue, index_data, robots_cache, current_queue, pc,
                   output, site_pages>>
    /\ UNCHANGED <<soup, summary>>

\* client.get of the page returns or raises: crawl runs to its end.
FetchReturn(i, resp) ==
    /\ pc = "gather"
    /\ \A j \in 1..Len(tasks) : tasks[j].pc # "start"
    /\ i \in 1..Len(tasks)
    /\ tasks[i].pc = "fetch"
    /\ LET url == tasks[i].url
           depth == tasks[i].depth
           outcome == page_outcome(url, resp, crawled_urls)
       IN  /\ index_data' = IF outcome = "indexed"
                            THEN Append(index_data, page_record(url))
                            ELSE index_data
           /\ to_crawl_queue' = to_crawl_queue \cup discovered(url, depth, resp, crawled_urls)
           /\ Return(i, outcome)
           /\ last' = [url |-> url, depth |-> depth, kind |-> resp.kind,
                     canonical |-> resp.canonical]
    /\ UNCHANGED <<crawled_urls, robots_cache, host_last_request_time, current_queue,
                   pc, output, site_pages, fetch_count>>
    /\ UNCHANGED <<soup, summary>>

\* ------------------------------------------------------------------ clock
\* One tick of time passes: the hosts' last requests get older and the
\* sleeping coroutines come closer to waking.  The synchronous segments (the
\* merge, the creation of a wave and the first segment of each coroutine) run
\* back to back and take no time.
Tick ==
    /\ pc = "gather"
    /\ \A i \in 1..Len(tasks) : tasks[i].pc # "start"
    /\ \/ \E h \in DOMAIN host_last_request_time :
              host_last_request_time[h] < MIN_DELAY_SECONDS
       \/ \E i \in 1..Len(tasks) : tasks[i].pc = "sleep" /\ tasks[i].delay > 0
    /\ host_last_request_time' =
           [h \in DOMAIN host_last_request_time |->
                IF host_last_request_time[h] < MIN_DELAY_SECONDS
                THEN host_last_request_time[h] + 1
                ELSE host_last_request_time[h]]
    /\ tasks' = [i \in 1..Len(tasks) |->
                    IF tasks[i].pc = "sleep" /\ tasks[i].delay > 0
                    THEN [tasks[i] EXCEPT !.delay = @ - 1]
                    ELSE tasks[i]]
    /\ last' = NoLast
    /\ UNCHANGED <<to_crawl_queue, crawled_urls, index_data, robots_cache,
                   current_queue, pc, output, site_pages, fetch_count>>
    /\ UNCHANGED <<soup, summary>>

\* ------------------------------------------------------------- run_crawler
RECURSIVE Orders(_)
\* The orders in which a set can be iterated.
Orders(S) ==
    IF S = {} THEN {<<>>}
    ELSE UNION {{<<x>> \o rest : rest \in Orders(S \ {x})} : x \in S}

Range(q) == {q[k] : k \in 1..Len(q)}

\* batch_items = current_queue[:5] and current_queue = current_queue[5:];
\* and a slice one entry longer.
batch_items_one_more(queue) ==
    SubSeq(queue, 1, IF Len(queue) < BATCH_SIZE + 1 THEN Len(queue) ELSE BATCH_SIZE + 1)

batch_items(queue) == SubSeq(queue, 1, IF Len(queue) < BATCH_SIZE THEN Len(queue) ELSE BATCH_SIZE)

remaining(queue) == SubSeq(queue, BATCH_SIZE + 1, Len(queue))

\* current_queue.extend(new_links), and an insertion in front instead.
extend_in_front(queue, new_links) == new_links \o queue

extend(queue, new_links) == queue \o new_links

\* The coroutines of a wave, and the list once the batch is taken off it.
Wave(queue) == [k \in 1..Len(batch_items(queue)) |-> NewTask(batch_items(queue)[k])]

\* run_crawler up to its first asyncio.gather: queue_list = list(to_crawl_queue),
\* the loop test (which holds: one entry, nothing crawled), the first batch.
RunCrawler ==
    /\ pc = "start"
    /\ \E queue_list \in Orders(to_crawl_queue) :
           /\ tasks' = Wave(queue_list)
           /\ current_queue' = remaining(queue_list)
    /\ pc' = "gather"
    /\ last' = NoLast
    /\ UNCHANGED <<to_crawl_queue, crawled_urls, index_data, robots_cache,
                   host_last_request_time, output, site_pages, fetch_count>>
    /\ UNCHANGED <<soup, summary>>

\* asyncio.gather returns.  The entries of to_crawl_queue that are not in
\* current_queue are appended in the iteration order of the set, and the set
\* is rebuilt from the list.  Then the loop test: either the next batch is
\* taken and its coroutines created, or the loop ends and index_data is
\* written to OUTPUT_FILE.
Merge ==
    /\ pc = "gather"
    /\ \A i \in 1..Len(tasks) : tasks[i].pc = "done"
    /\ \E new_links \in Orders(to_crawl_queue \ Range(current_queue)) :
           LET merged == extend(current_queue, new_links)
           IN  /\ to_crawl_queue' = Range(merged)
               /\ IF merged # <<>> /\ Cardinality(crawled_urls) < MAX_PAGES
                  THEN /\ tasks' = Wave(merged)
                       /\ current_queue' = remaining(merged)
                       /\ pc' = "gather"
                       /\ output' = output
                  ELSE /\ tasks' = <<>>
                       /\ current_queue' = merged
                       /\ pc' = "written"
                       /\ output' = index_data
    /\ last' = NoLast
    /\ UNCHANGED <<crawled_urls, index_data, robots_cache, host_last_request_time,
                   site_pages, fetch_count>>
    /\ UNCHANGED <<soup, summary>>

\* ---------------------------------------------------------- specification
TaskStep(i) ==
    \/ Start(i)
    \/ \E response \in RobotsResponses : RobotsReturn(i, response)
    \/ Wake(i)
    \/ \E resp \in PageResponses(site_pages) : FetchReturn(i, resp)

MainStep == RunCrawler \/ Merge

Next ==
    \/ \E i \in 1..BATCH_SIZE : TaskStep(i)
    \/ MainStep
    \/ Tick

Spec == Init /\ [][Next]_vars

\* The event loop runs every coroutine that is ready, every network call
\* returns or times out, and time passes.
FairSpec ==
    /\ Spec
    /\ \A i \in 1..BATCH_SIZE : WF_vars(TaskStep(i))
    /\ WF_vars(MainStep)
    /\ WF_vars(Tick)

\* The same run on a site of at most two pages besides the seed: the
\* specification under which the properties of progress are checked.
TwoPageInit == Init /\ site_pages \subseteq {"https://site/a", "https://site/b"}

FairTwoPageSpec ==
    /\ TwoPageInit /\ [][Next]_vars
    /\ \A i \in 1..BATCH_SIZE : WF_vars(TaskStep(i))
    /\ WF_vars(MainStep)
    /\ WF_vars(Tick)

\* ---------------------------------------------------- clean_and_summarize
\* clean_and_summarize on its own: it is given any document and returns.
SummarizeInit ==
    /\ Globals
    /\ site_pages = {}
    /\ soup \in Documents
    /\ summary = NoSummary

Summarize ==
    /\ summary = NoSummary
    /\ summary' = clean_and_summarize(soup)
    /\ UNCHANGED <<to_crawl_queue, crawled_urls, index_data, robots_cache,
                   host_last_request_time, current_queue, tasks, pc, output,
                   site_pages, fetch_count, last, soup>>

SummarizeSpec == SummarizeInit /\ [][Summarize]_vars

\* ------------------------------------------------------------------ claims
\* C1: for every url, at most one page fetch is issued during a run, also
\* when the frontier holds the url in two entries of one wave.
C1_AtMostOneFetchPerUrl == \A u \in URLS : fetch_count[u] <= 1

\* C2: in every reachable state crawled_urls holds at most MAX_PAGES urls.
C2_VisitedWithinMaxPages == Cardinality(crawled_urls) <= MAX_PAGES

\* C3: a page fetch is issued to a host only when at least MIN_DELAY_SECONDS
\* have passed since the previous page fetch issued to that host.
C3_FetchesToHostSpacedOut ==
    [][\A u \in URLS :
          fetch_count'[u] > fetch_count[u]
              => elapsed(urlparse(u).netloc) >= MIN_DELAY_SECONDS]_vars

\* C4: on a site with fewer in-scope urls than MAX_PAGES (every fetch and
\* wait returning), the loop eventually finds the frontier empty and the run
\* reaches the index-write step.
SmallSite == Cardinality({TARGET_ROOT} \cup site_pages) < MAX_PAGES

C4_TerminatesByFrontierExhaustion ==
    SmallSite => <>(pc = "written" /\ current_queue = <<>>)

\* C5: when the fetch of robots.txt failed or returned a status other than
\* 200, the robots test of crawl denies no url of that host.
C5_FailedRobotsFetchIsPermissive ==
    \A i \in 1..Len(tasks) :
        (Host(i) \in DOMAIN robots_cache /\ ~robots_cache[Host(i)].last_checked)
            => tasks[i].outcome # "denied"

\* C6: a url that the cached robots policy of its host denies is never
\* fetched and has no record; the step that denies it finds it unvisited,
\* puts it into crawled_urls and changes neither the index nor the frontier.
RobotsPolicyDenies(u) ==
    /\ urlparse(u).netloc \in DOMAIN robots_cache
    /\ ~can_fetch(robots_cache[urlparse(u).netloc], u)

HasRecord(u) == \E k \in 1..Len(index_data) : index_data[k].url = u

C6_DeniedUrlIsMarkedAndNeverFetched ==
    /\ [](\A u \in URLS : RobotsPolicyDenies(u) => fetch_count[u] = 0 /\ ~HasRecord(u))
    /\ [][\A i \in 1..Len(tasks) :
            (Len(tasks') = Len(tasks) /\ tasks[i].outcome = "none"
                /\ tasks'[i].outcome = "denied")
            => /\ RobotsPolicyDenies(tasks[i].url)'
               /\ tasks[i].url \notin crawled_urls
               /\ tasks[i].url \in crawled_urls'
               /\ index_data' = index_data
               /\ to_crawl_queue' = to_crawl_queue
               /\ fetch_count' = fetch_count]_vars

\* A page other than the seed was denied, and a later wave met it again.
C6_Witness ==
    /\ \E u \in InScopePages : RobotsPolicyDenies(u) /\ u \in crawled_urls
    /\ \E i \in 1..Len(tasks) :
           RobotsPolicyDenies(tasks[i].url) /\ tasks[i].outcome = "visited"

\* C7: every record of the index has a url whose host is TARGET_DOMAIN.
C7_RecordsAreOnTargetDomain ==
    \A k \in 1..Len(index_data) : urlparse(index_data[k].url).netloc = TARGET_DOMAIN

\* A page found through a link of a document was indexed (every document
\* of the site also links to the other host and to the subdomain).
C7_Witness == \E k \in 1..Len(index_data) : index_data[k].url \in InScopePages

\* C8: every entry of the frontier, whether pending or handed to crawl, has
\* a depth of at most MAX_DEPTH.
Entries ==
    to_crawl_queue \cup Range(current_queue)
        \cup {<<tasks[i].url, tasks[i].depth>> : i \in 1..Len(tasks)}

C8_DepthWithinMaxDepth == \A e \in Entries : e[2] <= MAX_DEPTH

\* A page dequeued at depth MAX_DEPTH was indexed while another page of the
\* site was not yet visited.
C8_Witness ==
    /\ last.depth = MAX_DEPTH
    /\ \E i \in 1..Len(tasks) :
           tasks[i].url = last.url /\ tasks[i].depth = MAX_DEPTH
               /\ tasks[i].outcome = "indexed"
    /\ site_pages \ crawled_urls # {}

\* C9: the handling of an HTML page whose canonical link resolves to a url
\* in crawled_urls other than the url of the page appends no record.
CanonicalOfLast == urljoin(last.url, last.canonical)

CanonicalVisitedElsewhere ==
    /\ last.kind = "html"
    /\ last.canonical # NoHref
    /\ CanonicalOfLast \in crawled_urls
    /\ CanonicalOfLast # last.url

C9_VisitedCanonicalGivesNoRecord ==
    [][CanonicalVisitedElsewhere' => index_data' = index_data]_vars

\* Such a page was handled, its canonical href being relative.
C9_Witness == CanonicalVisitedElsewhere /\ last.canonical.rel

\* C10: the handling of an HTML page that is a canonical duplicate (its
\* canonical link resolves to a visited url other than its own) still adds,
\* for every hyperlink of the page whose target passes the scope filter, is
\* not visited and is within MAX_DEPTH, the entry of the target to the
\* frontier.
C10_DuplicateStillDiscoversLinks ==
    [][CanonicalVisitedElsewhere' =>
          \A i \in 1..Len(tasks), links \in LinkSets(site_pages) :
              FetchReturn(i, [kind |-> "html", canonical |-> last'.canonical,
                              links |-> links, noise_links |-> {}])
              => \A h \in links :
                     (/\ is_valid(urljoin(tasks[i].url, h))
                      /\ urljoin(tasks[i].url, h) \notin crawled_urls
                      /\ tasks[i].depth + 1 <= MAX_DEPTH)
                     => <<urljoin(tasks[i].url, h), tasks[i].depth + 1>>
                            \in to_crawl_queue']_vars

\* C10, amended: the handling of an HTML page that is skipped as a canonical
\* duplicate (no record is appended for it) adds no entry to the frontier.
SkippedAsDuplicate == last'.kind = "html" /\ index_data' = index_data

C10_DuplicateDiscoversNoLinks ==
    [][SkippedAsDuplicate => to_crawl_queue' = to_crawl_queue]_vars

\* A canonical duplicate was handled above MAX_DEPTH while a page of the site
\* was neither visited nor in the frontier at the next depth.
C10_Witness ==
    /\ CanonicalVisitedElsewhere
    /\ last.depth < MAX_DEPTH
    /\ \E i \in 1..Len(tasks) : tasks[i].url = last.url /\ tasks[i].outcome = "duplicate"
    /\ \E p \in site_pages :
           p \notin crawled_urls /\ <<p, last.depth + 1>> \notin to_crawl_queue

\* C11: the handling of an HTML page that appends its record adds, for every
\* hyperlink anywhere in the document, the entry (target, depth + 1) to the
\* frontier if and only if the target passes the scope filter, is not in
\* crawled_urls and depth + 1 is at most MAX_DEPTH.
Eligible(target, new_depth) ==
    /\ is_valid(target)
    /\ target \notin crawled_urls
    /\ new_depth <= MAX_DEPTH

C11_IndexedPageEnqueuesEligibleLinks ==
    [][(last'.kind = "html" /\ Len(index_data') > Len(index_data)) =>
          \A i \in 1..Len(tasks), links \in LinkSets(site_pages),
             noise \in NoiseLinkSets(site_pages) :
              FetchReturn(i, [kind |-> "html", canonical |-> last'.canonical,
                              links |-> links, noise_links |-> noise])
              => \A h \in links \cup noise :
                     LET target == urljoin(tasks[i].url, h)
                         entry == <<target, tasks[i].depth + 1>>
                     IN  /\ Eligible(target, tasks[i].depth + 1)
                             => entry \in to_crawl_queue'
                         /\ entry \in to_crawl_queue' \ to_crawl_queue
                             => Eligible(target, tasks[i].depth + 1)]_vars

\* C12: a page fetch that fails leaves its url in crawled_urls, appends no
\* record and adds no entry, and changes neither the other coroutines of the
\* wave nor run_crawler; the coroutines of the wave all run to their end, and
\* the entries pending at that time are handed to crawl in a later wave
\* unless the page limit ends the run.
AllDone == pc = "gather" /\ \A i \in 1..Len(tasks) : tasks[i].pc = "done"

FrontierEntries == ({TARGET_ROOT} \cup InScopePages) \X (0..MAX_DEPTH)

HandedToCrawl(e) == \E i \in 1..Len(tasks) : <<tasks[i].url, tasks[i].depth>> = e

EndedByPageLimit == pc = "written" /\ Cardinality(crawled_urls) >= MAX_PAGES

C13_SnippetLaw ==
    summary # NoSummary =>
        IF soup.description.present /\ soup.description.has_content
               /\ soup.description.content # <<>>
        THEN summary.snippet = strip(soup.description.content)
        ELSE summary.snippet =
                 strip(slice_to(summary.content, SNIPPET_LENGTH))
                     \o (IF Len(summary.content) > SNIPPET_LENGTH
                         THEN Ellipsis ELSE <<>>)

\* C14: an entry handed to crawl in a wave is consumed: when the wave is
\* over and run_crawler merges, the entry is neither in to_crawl_queue nor in
\* current_queue, and the next wave does not hand it to crawl again.
EntryOf(i) == <<tasks[i].url, tasks[i].depth>>

MergeStep == AllDone /\ ~AllDone'

C14_EntryConsumedOnce ==
    [][MergeStep =>
          \A i \in 1..Len(tasks) :
              /\ EntryOf(i) \notin to_crawl_queue'
              /\ EntryOf(i) \notin Range(current_queue')
              /\ ~HandedToCrawl(EntryOf(i))']_vars

\* C15: a coroutine that is suspended (in the robots fetch, in the rate-limit
\* sleep or in the page fetch) has already put its url into crawled_urls, so
\* no other coroutine runs between its visited test and its marking.
C15_MarkedVisitedBeforeSuspending ==
    \A i \in 1..Len(tasks) :
        tasks[i].pc \in {"robots", "sleep", "fetch"} => tasks[i].url \in crawled_urls

\* C16: the handling of an HTML page whose canonical href, absolute or
\* relative, resolves to the url of the page itself appends the record of
\* the page.
C16_SelfCanonicalIsIndexed ==
    [][(/\ last'.kind = "html"
        /\ last'.canonical # NoHref
        /\ urljoin(last'.url, last'.canonical) = last'.url)
       => index_data' = Append(index_data, page_record(last'.url))]_vars

\* C17: for each host at most one fetch of robots.txt is ever issued (at
\* most one coroutine is in that fetch, and none once the host is cached),
\* and the parser cached for a host is never replaced.
Hosts == {urlparse(u).netloc : u \in URLS}

RobotsFetching(h) == {i \in 1..Len(tasks) : tasks[i].pc = "robots" /\ Host(i) = h}

C17_RobotsFetchedOncePerHost ==
    /\ [](\A h \in Hosts :
             /\ Cardinality(RobotsFetching(h)) <= 1
             /\ h \in DOMAIN robots_cache => RobotsFetching(h) = {})
    /\ [][\A h \in DOMAIN robots_cache :
             h \in DOMAIN robots_cache' /\ robots_cache'[h] = robots_cache[h]]_vars

\* Two coroutines of one wave target the host whose policy is cached, and
\* both are past the robots test.
C17_Witness ==
    /\ Len(tasks) = 2
    /\ tasks[1].url # tasks[2].url
    /\ Host(1) = Host(2)
    /\ Host(1) \in DOMAIN robots_cache
    /\ tasks[1].pc = "fetch"
    /\ tasks[2].pc = "sleep"

\* C18: index_data never holds two records with the same url.
C18_OneRecordPerUrl ==
    \A j, k \in 1..Len(index_data) :
        j # k => index_data[j].url # index_data[k].url

\* C19: a wave has at most BATCH_SIZE coroutines; the coroutines of a new
\* wave are created only when every coroutine of the wave before has
\* returned; and while a wave runs no entry is handed to crawl, so an entry
\* discovered during a wave is dequeued in a later one.
Handed == [i \in 1..Len(tasks) |-> EntryOf(i)]

InFlight == {i \in 1..Len(tasks) : tasks[i].pc # "done"}

C19_WavesOfBatchSizeDoNotOverlap ==
    /\ [](Len(tasks) <= BATCH_SIZE /\ Cardinality(InFlight) <= BATCH_SIZE)
    /\ [][(\E i \in 1..Len(tasks') :
               tasks'[i].pc = "start" /\ (i > Len(tasks) \/ tasks[i].pc # "start"))
           => InFlight = {}]_vars
    /\ [][InFlight # {} => Handed' = Handed]_vars

\* A full wave is running, one of its coroutines has indexed its page and
\* the other has not returned, and an entry discovered by the wave waits in
\* to_crawl_queue.
C19_Witness ==
    /\ Len(tasks) = BATCH_SIZE
    /\ InFlight # {}
    /\ \E i \in 1..Len(tasks) : tasks[i].outcome = "indexed"
    /\ \E e \in to_crawl_queue : e \notin Range(current_queue) /\ ~HandedToCrawl(e)

\* C20: when run_crawler merges after a wave, the entries that were pending
\* while the wave ran keep their places at the head of the list, in their
\* order, and every entry first discovered during the wave comes after all
\* of them; the next batch is the head of that list, so a pending entry is
\* dequeued no later than a discovered one.
Pending == Handed \o current_queue

DiscoveredInWave == to_crawl_queue \ (Range(current_queue) \cup Range(Handed))

Before(queue, e, n) ==
    \E j, k \in 1..Len(queue) : queue[j] = e /\ queue[k] = n /\ j < k

C20_DiscoveredEntriesGoBehindPending ==
    [][MergeStep =>
          /\ SubSeq(Pending', 1, Len(current_queue)) = current_queue
          /\ \A e \in Range(current_queue), n \in DiscoveredInWave :
                 /\ Before(Pending', e, n)
                 /\ HandedToCrawl(n)' => HandedToCrawl(e)']_vars

\* A wave is over that left entries pending and discovered new ones, below
\* the page limit: the merge that follows creates the next wave.
C20_Witness ==
    /\ AllDone
    /\ current_queue # <<>>
    /\ DiscoveredInWave # {}
    /\ Cardinality(crawled_urls) < MAX_PAGES

====
